---- MODULE Spec2Model ----
(***************************************************************************)
(* Main::Domain of Telegram Desktop (main/main_domain.cpp): the registry   *)
(* of accounts, the active account, the unread badge, and the deferred     *)
(* calls (badge recompute, accounts write, removal of redundant accounts). *)
(* Everything runs on the main thread: every handler is one atomic action. *)
(***************************************************************************)
EXTENDS Integers, Sequences, FiniteSets, TLC

\* ------------------------------------------------------------------ bounds
MaxAccounts == 3        \* accounts the registry may hold at once
MaxEvents == 2          \* triggers counted per deferred call (the top value
                        \* stands for "or more"); queued removeRedundantAccounts
MaxCfg == 1             \* distinct config contents besides the default
MaxUnread == 1          \* unread count of one session
StoredSizes == {1, 2}                    \* accounts the storage may hold

Null == 0                                \* nullptr
Ids == 1 .. MaxAccounts                  \* Account objects, see IdOf
NoIndex == 0 - 1                         \* _accountToActivate = -1
Production == "Production"
Test == "Test"
Environments == {Production, Test}
DefaultCfg == 0                          \* MTP::Config(environment)
CfgValues == 0 .. MaxCfg
FallbackHandle == 0                      \* Core::App().fallbackProductionConfig()
Fresh == 0 - 1                           \* no config to clone
Handles == 0 .. MaxAccounts
None == "none"

VARIABLES
    accounts,                  \* _accounts: sequence of AccountWithIndex (with the Account's own state)
    active,                    \* _active.current(): an account id or Null
    accountToActivate,         \* _accountToActivate
    activeLifetime,            \* _activeLifetime: the accounts whose sessionValue() feeds _activeSessions
    unreadBadge,               \* _unreadBadge
    unreadBadgeMuted,          \* _unreadBadgeMuted
    unreadBadgeUpdateScheduled,\* _unreadBadgeUpdateScheduled
    writeAccountsScheduled,    \* _writeAccountsScheduled
    postponed,                 \* calls given to Core::App().postponeCall
    mainQueue,                 \* calls given to crl::on_main
    configs,                   \* the MTP::Config objects: handle -> contents
    localPasscode,             \* Global::LocalPasscode() is set
    loggingOut,                \* the accounts whose logOut() has not ended their session yet
    fatal,                     \* the Expects/Assert/Unexpected that ended the process
    badgeEvents,               \* scheduleUpdateUnreadBadge calls since the last recompute
    writeRequests,             \* scheduleWriteAccounts calls since the last write
    last                       \* the handler that ran last, with what it observed

vars == <<accounts, active, accountToActivate, activeLifetime, unreadBadge, unreadBadgeMuted,
          unreadBadgeUpdateScheduled, writeAccountsScheduled, postponed,
          mainQueue, configs, localPasscode, loggingOut, fatal, badgeEvents,
          writeRequests, last>>

\* ------------------------------------------------------------------ helpers
Min(a, b) == IF a < b THEN a ELSE b

RECURSIVE SumSeq(_)
SumSeq(s) == IF s = <<>> THEN 0 ELSE Head(s) + SumSeq(Tail(s))

SelectSeqIdx(s, Keep(_)) ==
    LET F[i \in 0 .. Len(s)] ==
            IF i = 0 THEN <<>>
            ELSE IF Keep(i) THEN Append(F[i - 1], s[i]) ELSE F[i - 1]
    IN  F[Len(s)]

Count(q, kind) == Cardinality({i \in 1 .. Len(q) : q[i] = kind})

AccountIds(accs) == {accs[i].id : i \in 1 .. Len(accs)}

AccountOf(accs, id) == accs[CHOOSE i \in 1 .. Len(accs) : accs[i].id = id]

\* Nothing handed to _local->writeAccounts() (by this handler).
NoWrite == <<>>

\* What is recorded of the handler that ran last: its name; for a session's
\* end, whether the account was the active one; whether the handler changed
\* the active account; what removePasscodeIfEmpty
\* returned to it; how many accounts it erased and the config of the last
\* production account among them; how many triggers a deferred call answers;
\* what it handed to _local->writeAccounts(); the active index a load gave to
\* activateFromStorage(); the session values it sent to _activeSessions. It
\* also remembers, from then on, that resetWithForgottenPasscode() has asked
\* an account that had a session to log out.
NoLast == [op |-> None, wasActive |-> FALSE, switched |-> FALSE,
           ret |-> FALSE, removed |-> 0,
           prod |-> NoIndex, n |-> 0, written |-> NoWrite,
           loaded |-> NoIndex, forwarded |-> <<>>, reset |-> FALSE]

\* The Domain (with the globals it touches) as one value, threaded through the
\* calls a handler makes.
Here == [accounts |-> accounts, active |-> active,
         accountToActivate |-> accountToActivate,
         activeLifetime |-> activeLifetime,
         unreadBadge |-> unreadBadge, unreadBadgeMuted |-> unreadBadgeMuted,
         unreadBadgeUpdateScheduled |-> unreadBadgeUpdateScheduled,
         writeAccountsScheduled |-> writeAccountsScheduled,
         postponed |-> postponed, mainQueue |-> mainQueue,
         configs |-> configs, localPasscode |-> localPasscode,
         loggingOut |-> loggingOut,
         written |-> NoWrite, fatal |-> fatal,
         badgeEvents |-> badgeEvents, writeRequests |-> writeRequests,
         ret |-> FALSE,
         fired |-> 0, calls |-> 0, loaded |-> NoIndex, forwarded |-> <<>>]

InitState ==
    [accounts |-> <<>>, active |-> Null, accountToActivate |-> NoIndex,
     activeLifetime |-> {},
     unreadBadge |-> 0, unreadBadgeMuted |-> TRUE,
     unreadBadgeUpdateScheduled |-> FALSE, writeAccountsScheduled |-> FALSE,
     postponed |-> <<>>, mainQueue |-> <<>>,
     configs |-> [h \in Handles |-> DefaultCfg], localPasscode |-> FALSE,
     loggingOut |-> {},
     written |-> NoWrite, fatal |-> None,
     badgeEvents |-> 0, writeRequests |-> 0, ret |-> FALSE,
     fired |-> 0, calls |-> 0, loaded |-> NoIndex, forwarded |-> <<>>]

\* A failed Expects/Assert/Unexpected aborts the process: the process has no
\* state any more, only the failure and the handler that hit it are recorded.
Commit(d, lst) ==
    IF d.fatal # None
    THEN /\ fatal' = d.fatal
         /\ last' = [NoLast EXCEPT !.op = lst.op]
         /\ accounts' = InitState.accounts
         /\ active' = InitState.active
         /\ accountToActivate' = InitState.accountToActivate
         /\ activeLifetime' = InitState.activeLifetime
         /\ unreadBadge' = InitState.unreadBadge
         /\ unreadBadgeMuted' = InitState.unreadBadgeMuted
         /\ unreadBadgeUpdateScheduled' = InitState.unreadBadgeUpdateScheduled
         /\ writeAccountsScheduled' = InitState.writeAccountsScheduled
         /\ postponed' = InitState.postponed
         /\ mainQueue' = InitState.mainQueue
         /\ configs' = InitState.configs
         /\ localPasscode' = InitState.localPasscode
         /\ loggingOut' = InitState.loggingOut
         /\ badgeEvents' = InitState.badgeEvents
         /\ writeRequests' = InitState.writeRequests
    ELSE /\ accounts' = d.accounts
         /\ active' = d.active
         /\ accountToActivate' = d.accountToActivate
         /\ activeLifetime' = d.activeLifetime
         /\ unreadBadge' = d.unreadBadge
         /\ unreadBadgeMuted' = d.unreadBadgeMuted
         /\ unreadBadgeUpdateScheduled' = d.unreadBadgeUpdateScheduled
         /\ writeAccountsScheduled' = d.writeAccountsScheduled
         /\ postponed' = d.postponed
         /\ mainQueue' = d.mainQueue
         /\ configs' = d.configs
         /\ localPasscode' = d.localPasscode
         /\ loggingOut' = d.loggingOut
         /\ fatal' = d.fatal
         /\ badgeEvents' = d.badgeEvents
         /\ writeRequests' = d.writeRequests
         /\ last' = [lst EXCEPT !.switched = (d.active # active),
                                !.forwarded = d.forwarded,
                                !.reset = (last.reset \/ lst.reset)]

Fail(d, what) == [d EXCEPT !.fatal = what]

\* ------------------------------------------------------------------ Domain
started(d) == d.accounts # <<>>

\* Only ever asked of a live account: _active is one whenever the registry
\* is not empty.
sessionExists(d, id) ==
    \E i \in 1 .. Len(d.accounts) :
        d.accounts[i].id = id /\ d.accounts[i].session

\* scheduleWriteAccounts that does not look at the latch.
scheduleWriteAccountsUnlatched(d) ==
    [d EXCEPT !.writeAccountsScheduled = TRUE,
              !.mainQueue = Append(@, "write"),
              !.writeRequests = Min(@ + 1, MaxEvents),
              !.calls = @ + 1]

scheduleWriteAccounts(d) ==
    IF d.writeAccountsScheduled
    THEN [d EXCEPT !.writeRequests = Min(@ + 1, MaxEvents), !.calls = @ + 1]
    ELSE [d EXCEPT !.writeAccountsScheduled = TRUE,
                   !.mainQueue = Append(@, "write"),
                   !.writeRequests = Min(@ + 1, MaxEvents),
                   !.calls = @ + 1]

\* scheduleUpdateUnreadBadge that does not look at the latch.
scheduleUpdateUnreadBadgeUnlatched(d) ==
    [d EXCEPT !.unreadBadgeUpdateScheduled = TRUE,
              !.postponed = Append(@, "badge"),
              !.badgeEvents = Min(@ + 1, MaxEvents)]

scheduleUpdateUnreadBadge(d) ==
    IF d.unreadBadgeUpdateScheduled
    THEN [d EXCEPT !.badgeEvents = Min(@ + 1, MaxEvents)]
    ELSE [d EXCEPT !.unreadBadgeUpdateScheduled = TRUE,
                   !.postponed = Append(@, "badge"),
                   !.badgeEvents = Min(@ + 1, MaxEvents)]

\* What sessionValue() of the account id gives a subscriber now: the account
\* and whether it has a session.
SessionOf(d, id) == [account |-> id, session |-> sessionExists(d, id)]

\* The subscription that activate() makes, start_to_stream(_activeSessions,
\* _activeLifetime), when the session of the account id changes.
forwardSession(d, id) ==
    IF id \in d.activeLifetime
    THEN [d EXCEPT !.forwarded = Append(@, SessionOf(d, id))]
    ELSE d

\* activate without _activeLifetime.destroy().
activateKeepingLifetime(d, id) ==
    IF d.active = id THEN d
    ELSE IF id \notin AccountIds(d.accounts)
    THEN Fail(d, "Assert(i != end(_accounts))")
    ELSE LET index == AccountOf(d.accounts, id).index
             changed == d.accountToActivate # index
             d1 == [d EXCEPT !.accountToActivate = index, !.active = id,
                             !.fired = @ + 1,
                             !.activeLifetime = @ \cup {id},
                             !.forwarded = Append(@, SessionOf(d, id))]
         IN  IF changed THEN scheduleWriteAccounts(d1) ELSE d1

\* activate that never schedules a write.
activateNoWrite(d, id) ==
    IF d.active = id THEN d
    ELSE IF id \notin AccountIds(d.accounts)
    THEN Fail(d, "Assert(i != end(_accounts))")
    ELSE [d EXCEPT !.accountToActivate = AccountOf(d.accounts, id).index,
                   !.active = id,
                   !.fired = @ + 1,
                   !.activeLifetime = {id},
                   !.forwarded = Append(@, SessionOf(d, id))]

\* activate without the early return for the account that is active already.
activateAgain(d, id) ==
    IF id \notin AccountIds(d.accounts)
    THEN Fail(d, "Assert(i != end(_accounts))")
    ELSE LET index == AccountOf(d.accounts, id).index
             changed == d.accountToActivate # index
             d1 == [d EXCEPT !.accountToActivate = index, !.active = id,
                             !.fired = @ + 1,
                             !.activeLifetime = {id},
                             !.forwarded = Append(@, SessionOf(d, id))]
         IN  IF changed THEN scheduleWriteAccounts(d1) ELSE d1

\* The assignment to _active is what subscribers of its changes see: fired
\* counts the assignments a handler makes, calls its scheduleWriteAccounts().
activate(d, id) ==
    IF d.active = id THEN d
    ELSE IF id \notin AccountIds(d.accounts)
    THEN Fail(d, "Assert(i != end(_accounts))")
    ELSE LET index == AccountOf(d.accounts, id).index
             changed == d.accountToActivate # index
             d1 == [d EXCEPT !.accountToActivate = index, !.active = id,
                             !.fired = @ + 1,
                             !.activeLifetime = {id},
                             !.forwarded = Append(@, SessionOf(d, id))]
         IN  IF changed THEN scheduleWriteAccounts(d1) ELSE d1

\* activateAuthedAccount that takes the last account with a session.
activateAuthedAccountLast(d) ==
    IF ~started(d) THEN Fail(d, "Expects(started())")
    ELSE IF sessionExists(d, d.active) THEN d
    ELSE LET live == {i \in 1 .. Len(d.accounts) : d.accounts[i].session}
         IN  IF live = {} THEN d
             ELSE activate(d, d.accounts[CHOOSE i \in live :
                                            \A j \in live : j <= i].id)

activateAuthedAccount(d) ==
    IF ~started(d) THEN Fail(d, "Expects(started())")
    ELSE IF sessionExists(d, d.active) THEN d
    ELSE LET live == {i \in 1 .. Len(d.accounts) : d.accounts[i].session}
         IN  IF live = {} THEN d
             ELSE activate(d, d.accounts[CHOOSE i \in live :
                                            \A j \in live : i <= j].id)

\* removePasscodeIfEmpty that does not ask whether a session exists.
removePasscodeIfEmptyAnySession(d) ==
    IF Len(d.accounts) # 1
    THEN [d EXCEPT !.ret = FALSE]
    ELSE IF ~d.localPasscode
    THEN [d EXCEPT !.ret = FALSE]
    ELSE [d EXCEPT !.ret = TRUE, !.localPasscode = FALSE]

\* The value returned is the field ret of the result.
removePasscodeIfEmpty(d) ==
    IF Len(d.accounts) # 1 \/ sessionExists(d, d.active)
    THEN [d EXCEPT !.ret = FALSE]
    ELSE IF ~d.localPasscode
    THEN [d EXCEPT !.ret = FALSE]
    ELSE [d EXCEPT !.ret = TRUE, !.localPasscode = FALSE]

\* checkForLastProductionConfig that does not look for another production
\* account.
checkForLastProductionConfigAlways(d, i) ==
    LET account == d.accounts[i]
    IN  IF account.env # Production THEN d
        ELSE [d EXCEPT !.configs[FallbackHandle] = d.configs[account.config]]

checkForLastProductionConfig(d, i) ==
    LET account == d.accounts[i]
    IN  IF account.env # Production THEN d
        ELSE IF \E j \in 1 .. Len(d.accounts) :
                    /\ d.accounts[j].id # account.id
                    /\ d.accounts[j].env = Production
        THEN d
        ELSE [d EXCEPT !.configs[FallbackHandle] = d.configs[account.config]]

\* The erase loop that keeps the active account only.
RECURSIVE eraseNonActive(_, _)
eraseNonActive(d, i) ==
    IF i > Len(d.accounts) THEN d
    ELSE IF d.accounts[i].id = d.active
    THEN eraseNonActive(d, i + 1)
    ELSE LET d1 == checkForLastProductionConfig(d, i)
             gone == d1.accounts[i]
             d2 == [d1 EXCEPT
                      !.accounts = SelectSeqIdx(d1.accounts, LAMBDA k : k # i),
                      !.activeLifetime = @ \ {gone.id},
                      !.configs[gone.id] = DefaultCfg]
         IN  eraseNonActive(d2, i)

\* The erase loop of removeRedundantAccounts, from position i on.
RECURSIVE eraseRedundant(_, _)
eraseRedundant(d, i) ==
    IF i > Len(d.accounts) THEN d
    ELSE IF d.accounts[i].id = d.active \/ d.accounts[i].session
    THEN eraseRedundant(d, i + 1)
    ELSE LET d1 == checkForLastProductionConfig(d, i)
             gone == d1.accounts[i]
             d2 == [d1 EXCEPT
                      !.accounts = SelectSeqIdx(d1.accounts, LAMBDA k : k # i),
                      !.activeLifetime = @ \ {gone.id},
                      !.configs[gone.id] = DefaultCfg]
         IN  eraseRedundant(d2, i)

\* removeRedundantAccounts that does not ask removePasscodeIfEmpty whether a
\* write is still needed.
removeRedundantAccountsAlwaysWriting(d) ==
    IF ~started(d) THEN Fail(d, "Expects(started())")
    ELSE LET was == Len(d.accounts)
             d1 == activateAuthedAccount(d)
             d2 == eraseRedundant(d1, 1)
             d3 == removePasscodeIfEmpty(d2)
         IN  IF d1.fatal # None THEN d1
             ELSE IF Len(d3.accounts) # was
             THEN scheduleWriteAccounts(d3)
             ELSE d3

\* removeRedundantAccounts that does not call activateAuthedAccount first.
removeRedundantAccountsKeepingActive(d) ==
    IF ~started(d) THEN Fail(d, "Expects(started())")
    ELSE LET was == Len(d.accounts)
             d2 == eraseRedundant(d, 1)
             d3 == removePasscodeIfEmpty(d2)
         IN  IF ~d3.ret /\ Len(d3.accounts) # was
             THEN scheduleWriteAccounts(d3)
             ELSE d3

removeRedundantAccounts(d) ==
    IF ~started(d) THEN Fail(d, "Expects(started())")
    ELSE LET was == Len(d.accounts)
             d1 == activateAuthedAccount(d)
             d2 == eraseRedundant(d1, 1)
             d3 == removePasscodeIfEmpty(d2)
         IN  IF d1.fatal # None THEN d1
             ELSE IF ~d3.ret /\ Len(d3.accounts) # was
             THEN scheduleWriteAccounts(d3)
             ELSE d3

\* updateUnreadBadge that is muted as soon as one account with a session is.
updateUnreadBadgeMutedByAny(d) ==
    LET live == SelectSeq(d.accounts, LAMBDA a : a.session)
        counts == [i \in 1 .. Len(live) |-> live[i].unread]
    IN  [d EXCEPT !.unreadBadge = SumSeq(counts),
                  !.unreadBadgeMuted = \E i \in 1 .. Len(live) : live[i].muted]

updateUnreadBadge(d) ==
    LET live == SelectSeq(d.accounts, LAMBDA a : a.session)
        counts == [i \in 1 .. Len(live) |-> live[i].unread]
    IN  [d EXCEPT !.unreadBadge = SumSeq(counts),
                  !.unreadBadgeMuted = \A i \in 1 .. Len(live) : live[i].muted]

activeForStorage(d) == d.accountToActivate

\* Storage::Domain::writeAccounts stores the indices of accounts() and
\* activeForStorage().
writeAccounts(d) ==
    [d EXCEPT !.written =
        <<[i \in 1 .. Len(d.accounts) |-> d.accounts[i].index],
          activeForStorage(d)>>]

\* The call scheduleUpdateUnreadBadge postpones.
postponedUpdateUnreadBadge(d) ==
    updateUnreadBadge([d EXCEPT !.unreadBadgeUpdateScheduled = FALSE,
                                !.badgeEvents = 0])

\* notifyUnreadBadgeChanged: every session's data fires its unreadBadgeChanges,
\* which watchSession answers with scheduleUpdateUnreadBadge.
RECURSIVE notifyFrom(_, _)
notifyFrom(d, i) ==
    IF i > Len(d.accounts) THEN d
    ELSE notifyFrom(IF d.accounts[i].session
                    THEN scheduleUpdateUnreadBadge(d)
                    ELSE d,
                    i + 1)

notifyUnreadBadgeChanged(d) == notifyFrom(d, 1)

\* The postponed call that clears the latch only after updateUnreadBadge().
postponedUpdateUnreadBadgeLatchLast(d, notifies) ==
    LET d1 == updateUnreadBadge([d EXCEPT !.badgeEvents = 0])
        d2 == IF notifies THEN notifyUnreadBadgeChanged(d1) ELSE d1
    IN  [d2 EXCEPT !.unreadBadgeUpdateScheduled = FALSE]

\* The postponed call when a subscriber of unreadBadgeChanges() may answer the
\* fire at the end of updateUnreadBadge() with notifyUnreadBadgeChanged().
postponedUpdateUnreadBadgeFiring(d, notifies) ==
    LET d1 == updateUnreadBadge([d EXCEPT !.unreadBadgeUpdateScheduled = FALSE,
                                          !.badgeEvents = 0])
    IN  IF notifies THEN notifyUnreadBadgeChanged(d1) ELSE d1

\* The queued call without the reset of the latch.
queuedWriteAccountsKeepingLatch(d) ==
    writeAccounts([d EXCEPT !.writeRequests = 0])

\* The call scheduleWriteAccounts queues.
queuedWriteAccounts(d) ==
    writeAccounts([d EXCEPT !.writeAccountsScheduled = FALSE,
                            !.writeRequests = 0])

\* accountAddedInStorage without the search for the index.
accountAddedInStorageUnchecked(d, accountWithIndex) ==
    [d EXCEPT !.accounts = Append(@, accountWithIndex)]

accountAddedInStorage(d, accountWithIndex) ==
    IF \E i \in 1 .. Len(d.accounts) :
            d.accounts[i].index = accountWithIndex.index
    THEN Fail(d, "Unexpected(Repeated account index.)")
    ELSE [d EXCEPT !.accounts = Append(@, accountWithIndex)]

activateFromStorage(d, index) == [d EXCEPT !.accountToActivate = index]

\* activateAfterStarting that always takes the first account.
activateAfterStartingFirst(d) ==
    IF ~started(d) THEN Fail(d, "Expects(started())")
    ELSE LET d1 == activate(d, d.accounts[1].id)
         IN  IF d1.fatal # None THEN d1 ELSE removePasscodeIfEmpty(d1)

\* activateAfterStarting that watches the sessions but activates nothing.
activateAfterStartingNoActivate(d) ==
    IF ~started(d) THEN Fail(d, "Expects(started())")
    ELSE removePasscodeIfEmpty(d)

activateAfterStarting(d) ==
    IF ~started(d) THEN Fail(d, "Expects(started())")
    ELSE LET matching == {i \in 1 .. Len(d.accounts) :
                             d.accounts[i].index = d.accountToActivate}
             toActivate ==
                 IF matching = {} THEN d.accounts[1].id
                 ELSE d.accounts[CHOOSE i \in matching :
                                     \A j \in matching : j <= i].id
             d1 == activate(d, toActivate)
         IN  IF d1.fatal # None THEN d1 ELSE removePasscodeIfEmpty(d1)

\* An Account object is named by the index it is constructed with
\* (std::make_unique<Account>(this, _dataName, index)); its MTP::Config is an
\* object of its own.
IdOf(index) == index + 1

NewAccount(index, env, session, config) ==
    [id |-> IdOf(index), index |-> index, env |-> env, session |-> session,
     unread |-> 0, muted |-> TRUE, config |-> config]

\* Storage::Domain::start on success: every stored account is created with its
\* stored config and session and handed to accountAddedInStorage, and the
\* stored active index to activateFromStorage.
RECURSIVE storageLoad(_, _, _)
storageLoad(d, stored, activeIndex) ==
    IF d.fatal # None THEN d
    ELSE IF stored = <<>>
    THEN [activateFromStorage(d, activeIndex) EXCEPT !.loaded = activeIndex]
    ELSE LET e == Head(stored)
             d1 == accountAddedInStorage(
                       d, NewAccount(e.index, e.env, e.session,
                                     IdOf(e.index)))
         IN  storageLoad(
                 IF d1.fatal # None THEN d1
                 ELSE [d1 EXCEPT !.configs[IdOf(e.index)] = e.cfg],
                 Tail(stored), activeIndex)

\* Storage::Domain::startFromScratch: one logged out production account, index 0.
startFromScratch(d) ==
    storageLoad(d, <<[index |-> 0, env |-> Production, session |-> FALSE,
                      cfg |-> d.configs[FallbackHandle]]>>, 0)

\* start without Expects(!started()).
startUnchecked(d, stored, activeIndex, success) ==
    IF success
    THEN LET d1 == storageLoad(d, stored, activeIndex)
         IN  IF d1.fatal # None THEN d1 ELSE activateAfterStarting(d1)
    ELSE d

start(d, stored, activeIndex, success) ==
    IF started(d) THEN Fail(d, "Expects(!started())")
    ELSE IF success
    THEN LET d1 == storageLoad(d, stored, activeIndex)
         IN  IF d1.fatal # None THEN d1 ELSE activateAfterStarting(d1)
    ELSE d

\* finish that leaves _accountToActivate as it is.
finishKeepingIndex(d) ==
    [d EXCEPT !.active = Null,
              !.accounts = <<>>,
              !.activeLifetime = {},
              !.loggingOut = {},
              !.configs = [h \in Handles |->
                              IF h = FallbackHandle THEN @[h] ELSE DefaultCfg]]

finish(d) ==
    [d EXCEPT !.accountToActivate = NoIndex,
              !.active = Null,
              !.accounts = <<>>,
              !.activeLifetime = {},
              !.loggingOut = {},
              !.configs = [h \in Handles |->
                              IF h = FallbackHandle THEN @[h] ELSE DefaultCfg]]

\* Account::logOut: an account that has a session ends it later (the end is
\* a session loss); one that has none has nothing to end.
logOut(d, i) ==
    IF d.accounts[i].session
    THEN [d EXCEPT !.loggingOut = @ \cup {d.accounts[i].id}]
    ELSE d

RECURSIVE logOutFrom(_, _)
logOutFrom(d, i) ==
    IF i > Len(d.accounts) THEN d ELSE logOutFrom(logOut(d, i), i + 1)

\* resetWithForgottenPasscode that logs out the first account only.
resetWithForgottenPasscodeFirstOnly(d) ==
    IF d.accounts = <<>>
    THEN LET d1 == startFromScratch(d)
         IN  IF d1.fatal # None THEN d1 ELSE activateAfterStarting(d1)
    ELSE logOut(d, 1)

resetWithForgottenPasscode(d) ==
    IF d.accounts = <<>>
    THEN LET d1 == startFromScratch(d)
         IN  IF d1.fatal # None THEN d1 ELSE activateAfterStarting(d1)
    ELSE logOutFrom(d, 1)

\* std::make_unique<MTP::Config>(config): a new object, at the handle to, with
\* the contents of the one at handle; the result names the new object.
cloneConfig(d, handle, to) ==
    [d |-> [d EXCEPT !.configs[to] = d.configs[handle]], config |-> to]

\* configSource that does not try the active account first.
configSourceFirstMatching(d, environment) ==
    LET matching == {i \in 1 .. Len(d.accounts) :
                         d.accounts[i].env = environment}
    IN  IF matching # {}
        THEN d.accounts[CHOOSE i \in matching :
                            \A j \in matching : i <= j].config
        ELSE IF environment = Production THEN FallbackHandle
        ELSE Fresh

\* The handle of the config add() clones for the new account, or Fresh when a
\* new MTP::Config(environment) is made.
configSource(d, environment) ==
    LET matching == {i \in 1 .. Len(d.accounts) :
                         d.accounts[i].env = environment}
    IN  IF AccountOf(d.accounts, d.active).env = environment
        THEN AccountOf(d.accounts, d.active).config
        ELSE IF matching # {}
        THEN d.accounts[CHOOSE i \in matching :
                            \A j \in matching : i <= j].config
        ELSE IF environment = Production THEN FallbackHandle
        ELSE Fresh

\* add that takes the number of accounts for the new index.
addIndexByCount(d, environment) ==
    IF ~started(d) THEN Fail(d, "Expects(started())")
    ELSE LET source == configSource(d, environment)
             index == Len(d.accounts)
             made == IF source = Fresh
                     THEN [d |-> [d EXCEPT !.configs[IdOf(index)] = DefaultCfg],
                           config |-> IdOf(index)]
                     ELSE cloneConfig(d, source, IdOf(index))
         IN  [made.d EXCEPT !.accounts =
                  Append(@, NewAccount(index, environment, FALSE,
                                       made.config))]

add(d, environment) ==
    IF ~started(d) THEN Fail(d, "Expects(started())")
    ELSE LET source == configSource(d, environment)
             index == CHOOSE k \in 0 .. Len(d.accounts) :
                          /\ \A i \in 1 .. Len(d.accounts) :
                                 d.accounts[i].index # k
                          /\ \A m \in 0 .. k - 1 :
                                 \E i \in 1 .. Len(d.accounts) :
                                     d.accounts[i].index = m
             made == IF source = Fresh
                     THEN [d |-> [d EXCEPT !.configs[IdOf(index)] = DefaultCfg],
                           config |-> IdOf(index)]
                     ELSE cloneConfig(d, source, IdOf(index))
         IN  [made.d EXCEPT !.accounts =
                  Append(@, NewAccount(index, environment, FALSE,
                                       made.config))]

\* The handler without the activateAuthedAccount call.
sessionLostNoFallback(d, id) ==
    [scheduleUpdateUnreadBadge(d) EXCEPT !.mainQueue = Append(@, "remove")]

\* The sessionChanges handler watchSession installs, for a session that ended.
\* The session-loss handler that calls activateAuthedAccount for every
\* account.
sessionLostAlwaysFallback(d, id) ==
    LET d1 == scheduleUpdateUnreadBadge(d)
        d2 == activateAuthedAccount(d1)
    IN  [d2 EXCEPT !.mainQueue = Append(@, "remove")]

\* The session-loss handler that queues no removeRedundantAccounts.
sessionLostNotQueued(d, id) ==
    LET d1 == scheduleUpdateUnreadBadge(d)
    IN  IF id = d1.active THEN activateAuthedAccount(d1) ELSE d1

\* The session-loss handler that erases the account at once when it is not
\* the active one.
sessionLostErasing(d, id) ==
    LET d1 == scheduleUpdateUnreadBadge(d)
        d2 == IF id = d1.active THEN activateAuthedAccount(d1) ELSE d1
        d3 == IF id = d2.active THEN d2
              ELSE [d2 EXCEPT !.accounts = SelectSeq(@, LAMBDA a : a.id # id),
                              !.activeLifetime = @ \ {id},
                              !.configs[id] = DefaultCfg]
    IN  [d3 EXCEPT !.mainQueue = Append(@, "remove")]

sessionLost(d, id) ==
    LET d1 == scheduleUpdateUnreadBadge(d)
        d2 == IF id = d1.active THEN activateAuthedAccount(d1) ELSE d1
    IN  [d2 EXCEPT !.mainQueue = Append(@, "remove")]

\* ------------------------------------------------------------------ inputs
StoredIndices == {0, 1}

StoredAccount(envs, cfgs) ==
    [index : StoredIndices, env : envs, session : BOOLEAN, cfg : cfgs]

StoredSets(envs, cfgs) ==
    UNION {[1 .. n -> StoredAccount(envs, cfgs)] : n \in StoredSizes}

\* The last production config among the accounts of before that are gone in
\* after, or NoIndex.
LastProductionGone(before, after) ==
    LET gone == {i \in 1 .. Len(before) :
                    /\ before[i].id \notin AccountIds(after)
                    /\ before[i].env = Production}
    IN  IF gone = {} THEN NoIndex
        ELSE configs[before[CHOOSE i \in gone : \A j \in gone : j <= i].config]

\* ------------------------------------------------------------------ actions
Init ==
    /\ accounts = InitState.accounts
    /\ active = InitState.active
    /\ accountToActivate = InitState.accountToActivate
    /\ activeLifetime = InitState.activeLifetime
    /\ unreadBadge = InitState.unreadBadge
    /\ unreadBadgeMuted = InitState.unreadBadgeMuted
    /\ unreadBadgeUpdateScheduled = InitState.unreadBadgeUpdateScheduled
    /\ writeAccountsScheduled = InitState.writeAccountsScheduled
    /\ postponed = InitState.postponed
    /\ mainQueue = InitState.mainQueue
    /\ configs = InitState.configs
    /\ localPasscode = InitState.localPasscode
    /\ loggingOut = InitState.loggingOut
    /\ fatal = InitState.fatal
    /\ badgeEvents = InitState.badgeEvents
    /\ writeRequests = InitState.writeRequests
    /\ last = NoLast

Running == fatal = None

Start(envs, cfgs) ==
    /\ Running
    /\ IF started(Here)
       THEN Commit(start(Here, <<>>, NoIndex, TRUE),
                   [NoLast EXCEPT !.op = "start"])
       ELSE \E stored \in StoredSets(envs, cfgs),
               activeIndex \in StoredIndices :
               LET d == start(Here, stored, activeIndex, TRUE)
               IN  Commit(d, [NoLast EXCEPT !.op = "start", !.ret = d.ret,
                                            !.loaded = d.loaded])

StartFailed ==
    /\ Running
    /\ Commit(start(Here, <<>>, NoIndex, FALSE),
              [NoLast EXCEPT !.op = "startFailed"])

Finish ==
    /\ Running
    /\ Commit(finish(Here), [NoLast EXCEPT !.op = "finish"])

ResetWithForgottenPasscode ==
    /\ Running
    /\ LET d == resetWithForgottenPasscode(Here)
       IN  Commit(d, [NoLast EXCEPT !.op = "resetWithForgottenPasscode",
                                    !.ret = d.ret,
                                    !.loaded = d.loaded,
                                    !.reset = (d.loggingOut # {})])

Add(envs) ==
    /\ Running
    /\ Len(accounts) < MaxAccounts
    /\ \E environment \in envs :
          Commit(add(Here, environment), [NoLast EXCEPT !.op = "add"])

Activate ==
    /\ Running
    /\ \E id \in Ids :
          Commit(activate(Here, id), [NoLast EXCEPT !.op = "activate"])

\* An account logs in: Account::createSession.
SessionCreated ==
    /\ Running
    /\ \E i \in 1 .. Len(accounts) :
          /\ ~accounts[i].session
          /\ Commit(forwardSession([Here EXCEPT !.accounts[i].session = TRUE],
                                    accounts[i].id),
                    [NoLast EXCEPT !.op = "sessionCreated"])

\* An account's session ends: its sessionChanges fires nullptr.
SessionLost ==
    /\ Running
    /\ Count(mainQueue, "remove") < MaxEvents
    /\ \E i \in 1 .. Len(accounts) :
          /\ accounts[i].session
          /\ Commit(forwardSession(
                        sessionLost([Here EXCEPT !.accounts[i].session = FALSE,
                                                 !.accounts[i].unread = 0,
                                                 !.accounts[i].muted = TRUE,
                                                 !.loggingOut =
                                                     @ \ {accounts[i].id}],
                                    accounts[i].id),
                        accounts[i].id),
                    [NoLast EXCEPT !.op = "sessionLost",
                                   !.wasActive = (accounts[i].id = active)])

\* A session's unreadBadgeChanges fires.
UnreadChanged ==
    /\ Running
    /\ \E i \in 1 .. Len(accounts), unread \in 0 .. MaxUnread, muted \in BOOLEAN :
          /\ accounts[i].session
          /\ <<unread, muted>> # <<accounts[i].unread, accounts[i].muted>>
          /\ Commit(scheduleUpdateUnreadBadge(
                        [Here EXCEPT !.accounts[i].unread = unread,
                                     !.accounts[i].muted = muted]),
                    [NoLast EXCEPT !.op = "unreadChanged"])

\* An account's MTP::Config is updated (from the server).
ConfigChanged ==
    /\ Running
    /\ \E i \in 1 .. Len(accounts), cfg \in CfgValues :
          /\ configs[accounts[i].config] # cfg
          /\ Commit([Here EXCEPT !.configs[accounts[i].config] = cfg],
                    [NoLast EXCEPT !.op = "configChanged"])

\* The user sets a local passcode.
SetPasscode ==
    /\ Running
    /\ ~localPasscode
    /\ Commit([Here EXCEPT !.localPasscode = TRUE],
              [NoLast EXCEPT !.op = "setPasscode"])

RunUpdateUnreadBadge ==
    /\ Running
    /\ postponed # <<>>
    /\ Head(postponed) = "badge"
    /\ Commit(postponedUpdateUnreadBadge(
                  [Here EXCEPT !.postponed = Tail(@)]),
              [NoLast EXCEPT !.op = "updateUnreadBadge", !.n = badgeEvents])

\* The postponed call runs and a subscriber answers the recompute with
\* notifyUnreadBadgeChanged().
RunUpdateUnreadBadgeNotified ==
    /\ Running
    /\ postponed # <<>>
    /\ Head(postponed) = "badge"
    /\ \E i \in 1 .. Len(accounts) : accounts[i].session
    /\ Commit(postponedUpdateUnreadBadgeFiring(
                  [Here EXCEPT !.postponed = Tail(@)], TRUE),
              [NoLast EXCEPT !.op = "updateUnreadBadgeNotified",
                             !.n = badgeEvents])

RunWriteAccounts ==
    /\ Running
    /\ mainQueue # <<>>
    /\ Head(mainQueue) = "write"
    /\ LET d == queuedWriteAccounts([Here EXCEPT !.mainQueue = Tail(@)])
       IN  Commit(d, [NoLast EXCEPT !.op = "writeAccounts",
                                    !.n = writeRequests,
                                    !.written = d.written])

RunRemoveRedundantAccounts ==
    /\ Running
    /\ mainQueue # <<>>
    /\ Head(mainQueue) = "remove"
    /\ LET d == removeRedundantAccounts([Here EXCEPT !.mainQueue = Tail(@)])
       IN  Commit(d, [NoLast EXCEPT !.op = "removeRedundantAccounts",
                                    !.removed = Len(accounts) - Len(d.accounts),
                                    !.ret = d.ret,
                                    !.prod = LastProductionGone(accounts,
                                                                d.accounts)])

\* The Domain with production accounts of one config, no passcode and no
\* unread changes: the registry, the active account, the deferred calls.
Next ==
    \/ Start({Production}, {DefaultCfg})
    \/ StartFailed
    \/ Finish
    \/ Add({Production})
    \/ Activate
    \/ SessionCreated
    \/ SessionLost
    \/ RunUpdateUnreadBadge
    \/ RunWriteAccounts
    \/ RunRemoveRedundantAccounts

Spec == Init /\ [][Next]_vars

\* The same with a local passcode that the user may set.
NextPasscode ==
    \/ Start({Production}, {DefaultCfg})
    \/ Add({Production})
    \/ SessionCreated
    \/ SessionLost
    \/ SetPasscode
    \/ RunUpdateUnreadBadge
    \/ RunWriteAccounts
    \/ RunRemoveRedundantAccounts

SpecPasscode == Init /\ [][NextPasscode]_vars

\* The sessions with their unread counts, and the badge.
NextBadge ==
    \/ Start({Production}, {DefaultCfg})
    \/ SessionCreated
    \/ SessionLost
    \/ UnreadChanged
    \/ RunUpdateUnreadBadge
    \/ RunWriteAccounts
    \/ RunRemoveRedundantAccounts

SpecBadge == Init /\ [][NextBadge]_vars

\* The accounts with their environments and configs, and the fallback config.
NextConfig ==
    \/ Start(Environments, CfgValues)
    \/ Add(Environments)
    \/ SessionLost
    \/ ConfigChanged
    \/ RunUpdateUnreadBadge
    \/ RunWriteAccounts
    \/ RunRemoveRedundantAccounts

SpecConfig == Init /\ [][NextConfig]_vars

\* The triggers of the deferred calls and the calls themselves.
NextDeferred ==
    \/ Start({Production}, {DefaultCfg})
    \/ Activate
    \/ SessionLost
    \/ UnreadChanged
    \/ RunUpdateUnreadBadge
    \/ RunUpdateUnreadBadgeNotified
    \/ RunWriteAccounts
    \/ RunRemoveRedundantAccounts

\* A postponed call runs when the current event has been handled and a queued
\* call when the main queue gets to it: none of them waits for ever. Each of
\* the three is weak fairness of the action that runs the call, with the
\* action's guard written out where the definition of WF has ENABLED (the step
\* takes the call off its queue, so it always changes the state).
FairUpdateUnreadBadge ==
    \/ []<>~(fatal = None /\ postponed # <<>> /\ Head(postponed) = "badge")
    \/ []<><<RunUpdateUnreadBadge>>_vars

FairWriteAccounts ==
    \/ []<>~(fatal = None /\ mainQueue # <<>> /\ Head(mainQueue) = "write")
    \/ []<><<RunWriteAccounts>>_vars

FairRemoveRedundantAccounts ==
    \/ []<>~(fatal = None /\ mainQueue # <<>> /\ Head(mainQueue) = "remove")
    \/ []<><<RunRemoveRedundantAccounts>>_vars

SpecDeferred ==
    /\ Init
    /\ [][NextDeferred]_vars
    /\ FairUpdateUnreadBadge
    /\ FairWriteAccounts
    /\ FairRemoveRedundantAccounts

\* The forgotten-passcode reset. Up to the reset the user starts the Domain,
\* adds and activates accounts, logs in and sets a passcode, and the sessions
\* stay; once the reset has asked an account to log out, only the sessions'
\* ends and the deferred calls follow.
NextReset ==
    \/ ~last.reset /\ Start({Production}, {DefaultCfg})
    \/ ~last.reset /\ StartFailed
    \/ ~last.reset /\ Add({Production})
    \/ ~last.reset /\ Activate
    \/ ~last.reset /\ SessionCreated
    \/ ~last.reset /\ SetPasscode
    \/ ResetWithForgottenPasscode
    \/ last.reset /\ SessionLost
    \/ RunUpdateUnreadBadge
    \/ RunWriteAccounts
    \/ RunRemoveRedundantAccounts

\* Account::logOut ends the session of the account: the session's end does
\* not wait for ever (weak fairness of SessionLost while a logout is pending,
\* written with the action's guard as the three above).
FairLogOut ==
    \/ []<>~(/\ fatal = None
             /\ loggingOut # {}
             /\ Count(mainQueue, "remove") < MaxEvents)
    \/ []<><<SessionLost>>_vars

SpecReset ==
    /\ Init
    /\ [][NextReset]_vars
    /\ FairLogOut
    /\ FairUpdateUnreadBadge
    /\ FairWriteAccounts
    /\ FairRemoveRedundantAccounts

\* ------------------------------------------------------------------ properties
Live(accs) == {i \in 1 .. Len(accs) : accs[i].session}

FirstLive(accs) == accs[CHOOSE i \in Live(accs) : \A j \in Live(accs) : i <= j]

\* The step is a run of the queued removeRedundantAccounts that returned.
RemoveRedundantRan ==
    /\ mainQueue # <<>>
    /\ Head(mainQueue) = "remove"
    /\ mainQueue' = Tail(mainQueue) \/ mainQueue' = Append(Tail(mainQueue), "write")
    /\ last'.op = "removeRedundantAccounts"
    /\ fatal' = None

\* C1: whenever the registry is not empty, the active account is set and is
\* one of the accounts of the registry.
C1_ActiveIsLiveMember ==
    accounts # <<>> => active # Null /\ active \in AccountIds(accounts)

\* removeRedundantAccounts has erased accounts and left the active one.
C1_Witness ==
    /\ last.op = "removeRedundantAccounts"
    /\ last.removed >= 1
    /\ accounts # <<>>
    /\ active \in AccountIds(accounts)

\* C2: the indices of the accounts of the registry are pairwise distinct.
C2_IndicesDistinct ==
    \A i, j \in 1 .. Len(accounts) :
        i # j => accounts[i].index # accounts[j].index

\* add() has given the new account the smallest free index, smaller than an
\* earlier account's.
C2_Witness ==
    /\ last.op = "add"
    /\ Len(accounts) >= 2
    /\ \E i \in 1 .. Len(accounts) - 1 :
           accounts[i].index > accounts[Len(accounts)].index

\* The registry of C3: A active without a session, B not active without a
\* session, C not active with a session.
C3_Given ==
    /\ Len(accounts) = 3
    /\ \E a, b, c \in 1 .. 3 :
          /\ {a, b, c} = {1, 2, 3}
          /\ accounts[a].id = active /\ ~accounts[a].session
          /\ accounts[b].id # active /\ ~accounts[b].session
          /\ accounts[c].id # active /\ accounts[c].session

\* C3 as claimed: from that registry one removeRedundantAccounts() erases B
\* only and leaves A active.
C3_AsClaimed ==
    [][C3_Given /\ RemoveRedundantRan =>
           /\ Len(accounts') = 2
           /\ active' = active
           /\ \A i \in 1 .. 3 :
                  (accounts[i].id = active \/ accounts[i].session)
                      => accounts[i].id \in AccountIds(accounts')]_vars

\* C3 amended: from that registry one removeRedundantAccounts() makes C the
\* active account and erases both A and B.
C3_SwitchesAndErasesBoth ==
    [][C3_Given /\ RemoveRedundantRan =>
           /\ Len(accounts') = 1
           /\ accounts'[1].session
           /\ accounts'[1].id \in AccountIds(accounts)
           /\ active' = accounts'[1].id
           /\ active' # active]_vars

\* removeRedundantAccounts has switched the active account and erased two
\* accounts, the one that was active among them.
C3_Witness ==
    /\ last.op = "removeRedundantAccounts"
    /\ last.removed = 2
    /\ last.switched
    /\ Len(accounts) = 1
    /\ accounts[1].session
    /\ active = accounts[1].id

\* C4: right after the handler of the end of the active account's session,
\* when some account has a session, the active account is the first account
\* of the registry that has one.
C4_FallbackToFirstLive ==
    (last.op = "sessionLost" /\ last.wasActive /\ Live(accounts) # {})
        => active = FirstLive(accounts).id

\* The active account's session ended while two later accounts had one: the
\* first of the two is active now.
C4_Witness ==
    /\ last.op = "sessionLost"
    /\ last.wasActive
    /\ last.switched
    /\ Len(accounts) = 3
    /\ Live(accounts) = {2, 3}
    /\ active = accounts[2].id

\* The unread counts of the sessions that exist, in registry order.
LiveUnread(accs) ==
    [i \in 1 .. Len(accs) |-> IF accs[i].session THEN accs[i].unread ELSE 0]

\* C5: however many badge triggers came since the last recompute, exactly one
\* recompute is pending, none when none came; and right after a recompute the
\* badge is the sum over the sessions as they are now and is muted iff all of
\* them are, with no recompute left pending.
C5_OneRecomputeOfLatestState ==
    /\ badgeEvents >= 1 => Count(postponed, "badge") = 1
    /\ badgeEvents = 0 => Count(postponed, "badge") = 0
    /\ last.op = "updateUnreadBadge" =>
           /\ unreadBadge = SumSeq(LiveUnread(accounts))
           /\ unreadBadgeMuted =
                  (\A i \in 1 .. Len(accounts) :
                       accounts[i].session => accounts[i].muted)
           /\ badgeEvents = 0

\* One recompute has answered two or more triggers and found unread messages.
C5_Witness ==
    /\ last.op = "updateUnreadBadge"
    /\ last.n >= 2
    /\ unreadBadge >= 1
    /\ postponed = <<>>

\* C6 as claimed: at most one pending call of each of the three kinds.
C6_AsClaimed ==
    /\ Count(postponed, "badge") <= 1
    /\ Count(mainQueue, "write") <= 1
    /\ Count(mainQueue, "remove") <= 1

\* C6 amended: a badge recompute is pending once while its latch is set and
\* not otherwise, and so is an accounts write; removeRedundantAccounts calls
\* have no latch.
C6_LatchedCallsPendingOnce ==
    /\ Count(postponed, "badge") = (IF unreadBadgeUpdateScheduled THEN 1 ELSE 0)
    /\ Count(mainQueue, "write") = (IF writeAccountsScheduled THEN 1 ELSE 0)

\* Two removeRedundantAccounts calls are pending beside one write and one
\* badge recompute.
C6_Witness ==
    /\ Count(mainQueue, "remove") >= 2
    /\ Count(mainQueue, "write") = 1
    /\ Count(postponed, "badge") = 1
    /\ writeAccountsScheduled
    /\ unreadBadgeUpdateScheduled

\* C7: the write latch is set exactly while scheduleWriteAccounts() has been
\* called since the last write, and exactly then one write is queued; the
\* write stores the indices of the registry and the active index as they are
\* when it runs.
C7_WriteCoalescing ==
    /\ writeAccountsScheduled <=> writeRequests >= 1
    /\ writeAccountsScheduled => Count(mainQueue, "write") = 1
    /\ ~writeAccountsScheduled => Count(mainQueue, "write") = 0
    /\ last.op = "writeAccounts" =>
           /\ last.written =
                  <<[i \in 1 .. Len(accounts) |-> accounts[i].index],
                    accountToActivate>>
           /\ ~writeAccountsScheduled

\* One write has answered two or more scheduleWriteAccounts() calls and stored
\* two accounts or more.
C7_Witness ==
    /\ last.op = "writeAccounts"
    /\ last.n >= 2
    /\ Len(last.written[1]) >= 2
    /\ Count(mainQueue, "write") = 0

\* The step is a handler that called removePasscodeIfEmpty and returned.
RemovePasscodeIfEmptyRan ==
    /\ fatal' = None
    /\ \/ RemoveRedundantRan
       \/ /\ accounts = <<>>
          /\ accounts' # <<>>
          /\ last'.op \in {"start", "resetWithForgottenPasscode"}

\* C8: removePasscodeIfEmpty() returns true exactly when the registry holds
\* one account, that account has no session and a passcode is set; the
\* passcode is cleared when it returns true and kept as it was otherwise.
C8_PasscodeAutoClear ==
    [][RemovePasscodeIfEmptyRan =>
           /\ last'.ret <=> /\ Len(accounts') = 1
                            /\ ~accounts'[1].session
                            /\ localPasscode
           /\ localPasscode' = (localPasscode /\ ~last'.ret)]_vars

\* removeRedundantAccounts has left one logged out account and the passcode
\* was cleared.
C8_Witness ==
    /\ last.op = "removeRedundantAccounts"
    /\ last.removed >= 1
    /\ last.ret
    /\ ~localPasscode
    /\ Len(accounts) = 1
    /\ ~accounts[1].session

\* The config add() is to copy, by the four rules, given the registry before
\* the call and the environment asked for.
ExpectedConfig(old, environment) ==
    LET matching == {i \in 1 .. Len(old) : old[i].env = environment}
        first == CHOOSE i \in matching : \A j \in matching : i <= j
    IN  IF AccountOf(old, active).env = environment
        THEN configs[AccountOf(old, active).config]
        ELSE IF matching # {} THEN configs[old[first].config]
        ELSE IF environment = Production THEN configs[FallbackHandle]
        ELSE DefaultCfg

\* Right after add(): the new account's config is the one the four rules name.
C9_Priority ==
    (last.op = "add" /\ fatal = None) =>
        LET n == Len(accounts)
        IN  configs[accounts[n].config] =
                ExpectedConfig(SubSeq(accounts, 1, n - 1), accounts[n].env)

\* add() changes no config of an account there before nor the fallback, and a
\* change of one account's config changes that account's only.
C9_Independent ==
    /\ (last'.op = "add" /\ fatal' = None) =>
           /\ configs'[FallbackHandle] = configs[FallbackHandle]
           /\ \A i \in 1 .. Len(accounts) :
                  configs'[accounts'[i].config] = configs[accounts[i].config]
    /\ (last'.op = "configChanged" /\ fatal' = None) =>
           /\ configs'[FallbackHandle] = configs[FallbackHandle]
           /\ Cardinality({i \in 1 .. Len(accounts) :
                  configs'[accounts'[i].config] # configs[accounts[i].config]}) = 1

\* C9: add(environment) gives the new account the contents of the active
\* account's config if that account uses the environment, else of the first
\* account of the registry that uses it, else of the fallback production
\* config for production, else a default config; the copy is a config of its
\* own.
C9_ConfigProvisioning == []C9_Priority /\ [][C9_Independent]_vars

\* add() has copied the active account's config although an earlier account of
\* the same environment has another config.
C9_Witness ==
    /\ last.op = "add"
    /\ Len(accounts) = 3
    /\ active = accounts[2].id
    /\ accounts[1].env = accounts[3].env
    /\ accounts[2].env = accounts[3].env
    /\ accounts[3].config # accounts[2].config
    /\ configs[accounts[3].config] = configs[accounts[2].config]
    /\ configs[accounts[3].config] # configs[accounts[1].config]

ProductionIn(accs) == {i \in 1 .. Len(accs) : accs[i].env = Production}

\* C10: a run of removeRedundantAccounts that erases production accounts and
\* leaves none sets the fallback production config to the config of the last
\* one erased; any other run leaves the fallback as it was.
C10_FallbackPreserved ==
    [][RemoveRedundantRan =>
           LET gone == {i \in ProductionIn(accounts) :
                            accounts[i].id \notin AccountIds(accounts')}
               lastGone == CHOOSE i \in gone : \A j \in gone : j <= i
           IN  IF gone # {} /\ ProductionIn(accounts') = {}
               THEN configs'[FallbackHandle] = configs[accounts[lastGone].config]
               ELSE configs'[FallbackHandle] = configs[FallbackHandle]]_vars

\* removeRedundantAccounts has erased the last production accounts and the
\* fallback holds the config, not a default one, of the last of them.
C10_Witness ==
    /\ last.op = "removeRedundantAccounts"
    /\ last.removed >= 2
    /\ last.prod # NoIndex
    /\ last.prod # DefaultCfg
    /\ ProductionIn(accounts) = {}
    /\ accounts # <<>>
    /\ configs[FallbackHandle] = last.prod

\* C11: a start() whose load fails leaves the registry empty and no account
\* active; one whose load succeeds leaves the registry not empty with one of
\* its accounts active; a start() of a started domain fails Expects(!started()).
C11_StartOutcome ==
    [][last'.op \in {"start", "startFailed"} =>
           IF accounts # <<>>
           THEN fatal' = "Expects(!started())"
           ELSE /\ fatal' # "Expects(!started())"
                /\ (last'.op = "startFailed") =>
                       /\ fatal' = None
                       /\ accounts' = <<>>
                       /\ active' = Null
                /\ (last'.op = "start" /\ fatal' = None) =>
                       /\ accounts' # <<>>
                       /\ active' \in AccountIds(accounts')]_vars

\* A load has failed after a finish() that left a write queued: the domain is
\* not started.
C11_Witness ==
    /\ last.op = "startFailed"
    /\ fatal = None
    /\ accounts = <<>>
    /\ active = Null
    /\ Count(mainQueue, "write") = 1

\* The smallest index no account of accs has.
SmallestFreeIndex(accs) ==
    CHOOSE k \in 0 .. Len(accs) :
        /\ \A i \in 1 .. Len(accs) : accs[i].index # k
        /\ \A m \in 0 .. k - 1 : \E i \in 1 .. Len(accs) : accs[i].index = m

\* C12: add() fails Expects(started()) when the registry is empty; otherwise
\* it appends one account, without a session, whose index is the smallest one
\* free, and leaves the accounts there before, the active account and the
\* preferred index as they were.
C12_AddEffectAndFrame ==
    [][last'.op = "add" =>
           IF accounts = <<>>
           THEN fatal' = "Expects(started())"
           ELSE /\ fatal' = None
                /\ Len(accounts') = Len(accounts) + 1
                /\ SubSeq(accounts', 1, Len(accounts)) = accounts
                /\ accounts'[Len(accounts')].index = SmallestFreeIndex(accounts)
                /\ ~accounts'[Len(accounts')].session
                /\ active' = active
                /\ accountToActivate' = accountToActivate]_vars

\* add() has filled the hole between two indices; the new account is last and
\* not active.
C12_Witness ==
    /\ last.op = "add"
    /\ Len(accounts) = 3
    /\ accounts[3].index < accounts[2].index
    /\ accounts[3].index > accounts[1].index
    /\ active # accounts[3].id
    /\ accountToActivate # accounts[3].index

\* What activate(id) has to do to the domain d, for a member id.
ActivateMeets(d, id) ==
    LET r == activate(d, id)
        index == AccountOf(d.accounts, id).index
    IN  IF id = d.active
        THEN r = d
        ELSE /\ r.fatal = None
             /\ r.active = id
             /\ r.fired = d.fired + 1
             /\ r.accountToActivate = index
             /\ r.accounts = d.accounts
             /\ IF d.accountToActivate # index
                THEN /\ r.calls = d.calls + 1
                     /\ r.writeAccountsScheduled
                     /\ Count(r.mainQueue, "write") >= 1
                ELSE /\ r.calls = d.calls
                     /\ r.writeAccountsScheduled = d.writeAccountsScheduled
                     /\ r.mainQueue = d.mainQueue

\* C13: activate() of the active account changes nothing, emits nothing and
\* schedules no write; activate() of another member makes it the active one,
\* emits the change once, sets the preferred index to its index and calls
\* scheduleWriteAccounts() exactly when the preferred index was another one.
\* Checked wherever the domain can be when activate() is called: in every
\* started state, and in start() between the load and activateAfterStarting().
C13_ActivateEffect ==
    /\ \A id \in AccountIds(accounts) : ActivateMeets(Here, id)
    /\ (accounts = <<>> /\ fatal = None) =>
           \A stored \in StoredSets({Production}, {DefaultCfg}),
              activeIndex \in StoredIndices :
               LET d1 == storageLoad(Here, stored, activeIndex)
               IN  d1.fatal = None =>
                       \A id \in AccountIds(d1.accounts) : ActivateMeets(d1, id)

\* activate() has switched to another account while no write was pending: the
\* preferred index follows and one write is queued.
C13_Witness ==
    /\ last.op = "activate"
    /\ last.switched
    /\ Len(accounts) >= 2
    /\ accountToActivate = AccountOf(accounts, active).index
    /\ writeAccountsScheduled
    /\ Count(mainQueue, "write") = 1
    /\ writeRequests = 1

\* C14: after finish() the registry is empty, no account is active, the
\* pending-activation index is reset and started() is false; a start() that
\* follows is legal and gives the registry, the active account and the
\* preferred index that the same load gives a domain just constructed, and
\* leaves a write pending where that one does.
C14_FinishTeardown ==
    (last.op = "finish") =>
        /\ fatal = None
        /\ accounts = <<>>
        /\ ~started(Here)
        /\ active = Null
        /\ accountToActivate = NoIndex
        /\ \A stored \in StoredSets({Production}, {DefaultCfg}),
              activeIndex \in StoredIndices :
               LET again == start(Here, stored, activeIndex, TRUE)
                   first == start(InitState, stored, activeIndex, TRUE)
               IN  /\ again.fatal = first.fatal
                   /\ again.accounts = first.accounts
                   /\ again.active = first.active
                   /\ again.accountToActivate = first.accountToActivate
                   /\ again.calls = first.calls
                   /\ first.writeAccountsScheduled =>
                          /\ again.writeAccountsScheduled
                          /\ Count(again.mainQueue, "write") >= 1

\* finish() has torn down a domain that had a write and a removal queued.
C14_Witness ==
    /\ last.op = "finish"
    /\ accounts = <<>>
    /\ active = Null
    /\ accountToActivate = NoIndex
    /\ Count(mainQueue, "write") = 1
    /\ Count(mainQueue, "remove") >= 1

\* The account activateAfterStarting() has to activate in the domain d.
PendingOrFirst(d) ==
    IF \E i \in 1 .. Len(d.accounts) : d.accounts[i].index = d.accountToActivate
    THEN IdOf(d.accountToActivate)
    ELSE d.accounts[1].id

\* C15: activateAfterStarting() activates the account whose index is the one
\* activateFromStorage() recorded if the registry has it, and the first account
\* otherwise; it calls scheduleWriteAccounts() in the second case and not in
\* the first. Checked for every load a not-started domain can be given.
C15_StartupSelection ==
    (accounts = <<>> /\ fatal = None) =>
        \A stored \in StoredSets({Production}, {DefaultCfg}),
           activeIndex \in StoredIndices :
            LET d1 == storageLoad(Here, stored, activeIndex)
                r == activateAfterStarting(d1)
                match == \E i \in 1 .. Len(d1.accounts) :
                             d1.accounts[i].index = activeIndex
            IN  d1.fatal = None =>
                    /\ r.fatal = None
                    /\ r.active = PendingOrFirst(d1)
                    /\ r.accountToActivate = AccountOf(r.accounts, r.active).index
                    /\ r.calls = IF match THEN 0 ELSE 1
                    /\ match => r.mainQueue = d1.mainQueue
                    /\ ~match => Count(r.mainQueue, "write") >= 1

\* start() has activated the second stored account, the one the stored index
\* names, and no write is pending.
C15_Witness ==
    /\ last.op = "start"
    /\ fatal = None
    /\ Len(accounts) = 2
    /\ active = accounts[2].id
    /\ accountToActivate = accounts[2].index
    /\ ~writeAccountsScheduled
    /\ mainQueue = <<>>

\* C16: activateAuthedAccount(), as removeRedundantAccounts() calls it on
\* entry, leaves the active account alone when that has a session and when no
\* account has one, and otherwise activates the first account in registry
\* order that has a session.
C16_AuthedFallbackRule ==
    [][RemoveRedundantRan =>
           active' = IF sessionExists(Here, active) \/ Live(accounts) = {}
                     THEN active
                     ELSE FirstLive(accounts).id]_vars

\* removeRedundantAccounts() has switched to the first of two accounts with a
\* session.
C16_Witness ==
    /\ last.op = "removeRedundantAccounts"
    /\ last.switched
    /\ Len(accounts) = 2
    /\ accounts[1].session /\ accounts[2].session
    /\ active = accounts[1].id

\* C17: right after an updateUnreadBadge() the badge is the sum of the unread
\* counts of the accounts that have a session when it runs (0 when none has),
\* and it is muted exactly when each of those accounts is (so when none is
\* there); the recompute changes no account.
C17_BadgeRecomputeResult ==
    [][last'.op = "updateUnreadBadge" =>
           /\ accounts' = accounts
           /\ unreadBadge' = SumSeq(LiveUnread(accounts))
           /\ unreadBadgeMuted' =
                  (\A i \in Live(accounts) : accounts[i].muted)
           /\ Live(accounts) = {} =>
                  (unreadBadge' = 0 /\ unreadBadgeMuted')]_vars

\* A recompute has added up two accounts with a session, one of them muted:
\* the badge counts both and is not muted.
C17_Witness ==
    /\ last.op = "updateUnreadBadge"
    /\ Len(accounts) = 2
    /\ accounts[1].session /\ accounts[2].session
    /\ accounts[1].muted # accounts[2].muted
    /\ unreadBadge = 2
    /\ ~unreadBadgeMuted

\* C18: a trigger of the badge recompute is followed by a run of the recompute
\* that starts after it, and a scheduleWriteAccounts() call by a run of the
\* write that starts after it, also when the trigger comes while the deferred
\* call of its kind is running, unless the process has aborted before.
C18_NoLostTrigger ==
    /\ (badgeEvents >= 1) ~>
           ((last.op = "updateUnreadBadge" /\ badgeEvents = 0) \/ fatal # None)
    /\ (writeRequests >= 1) ~>
           ((last.op = "writeAccounts" /\ writeRequests = 0) \/ fatal # None)

\* A trigger has come while the recompute was running: the latch is set again
\* and a new call is postponed.
C18_Witness ==
    /\ last.op = "updateUnreadBadgeNotified"
    /\ badgeEvents >= 1
    /\ unreadBadgeUpdateScheduled
    /\ postponed = <<"badge">>

\* The accounts of the registry that the step takes out of it.
Gone == {i \in 1 .. Len(accounts) : accounts[i].id \notin AccountIds(accounts')}

\* C19 as claimed: apart from finish(), the account add() has just made (it
\* never had a session) stays in the registry, and so does the account that is
\* active when removeRedundantAccounts() is entered.
C19_AsClaimed ==
    [][(fatal' = None /\ last'.op # "finish") =>
           /\ (last.op = "add" /\ fatal = None) =>
                  accounts[Len(accounts)].id \in AccountIds(accounts')
           /\ RemoveRedundantRan => active \in AccountIds(accounts')]_vars

\* C19: apart from finish(), an account leaves the registry only in a run of
\* removeRedundantAccounts(), and then it has no session and is not the account
\* active after the run; the account active on entry leaves only when it has
\* no session and another account has one.
C19_RemovedOnlyAsRedundant ==
    [][(fatal' = None /\ Gone # {}) =>
           \/ last'.op = "finish"
           \/ /\ RemoveRedundantRan
              /\ \A i \in Gone :
                     /\ ~accounts[i].session
                     /\ accounts[i].id # active'
                     /\ accounts[i].id = active => Live(accounts) # {}]_vars

\* removeRedundantAccounts() has switched away from the account that was
\* active on entry and erased it: one account is left.
C19_Witness ==
    /\ last.op = "removeRedundantAccounts"
    /\ last.switched
    /\ last.removed = 1
    /\ Len(accounts) = 1
    /\ accounts[1].session

\* C20: removeRedundantAccounts() erases no account that has a session and not
\* the account that is active when it erases; the accounts it keeps are as
\* they were and in the order they were, and at least one is kept.
C20_ErasesOnlyRedundant ==
    [][RemoveRedundantRan =>
           /\ \A i \in 1 .. Len(accounts) :
                  accounts[i].session => accounts[i].id \in AccountIds(accounts')
           /\ active' \in AccountIds(accounts')
           /\ accounts' = SelectSeq(accounts,
                                    LAMBDA a : a.id \in AccountIds(accounts'))
           /\ accounts' # <<>>]_vars

\* removeRedundantAccounts() has erased the middle one of three accounts: the
\* other two, the second of them not active, are in their order.
C20_Witness ==
    /\ last.op = "removeRedundantAccounts"
    /\ last.removed = 1
    /\ Len(accounts) = 2
    /\ accounts[1].index = 0
    /\ accounts[2].index = 2
    /\ active = accounts[1].id
    /\ accounts[2].session

\* C21: the session-loss callback queues one removeRedundantAccounts() and
\* takes no account out of the registry; right after a run of the queued call
\* every account of the registry is the active one or has a session.
C21_CleanupAfterLogout ==
    [][/\ (last'.op = "sessionLost" /\ fatal' = None) =>
              /\ Len(accounts') = Len(accounts)
              /\ AccountIds(accounts') = AccountIds(accounts)
              /\ mainQueue' # <<>>
              /\ mainQueue'[Len(mainQueue')] = "remove"
              /\ Count(mainQueue', "remove") = Count(mainQueue, "remove") + 1
       /\ RemoveRedundantRan =>
              \A i \in 1 .. Len(accounts') :
                  accounts'[i].id = active' \/ accounts'[i].session]_vars

\* The queued call has erased two logged out accounts at once and kept the
\* active one.
C21_Witness ==
    /\ last.op = "removeRedundantAccounts"
    /\ last.removed = 2
    /\ ~last.switched
    /\ Len(accounts) = 1
    /\ active = accounts[1].id

\* C22: a run of removeRedundantAccounts() calls scheduleWriteAccounts() for
\* the registry exactly when it has erased an account and has not cleared the
\* passcode; the call that activate() makes when the run switches the active
\* account comes on top. Checked wherever the queued call is about to run.
C22_WriteAfterRemoval ==
    (fatal = None /\ accounts # <<>> /\ mainQueue # <<>>
        /\ Head(mainQueue) = "remove") =>
        LET r == removeRedundantAccounts([Here EXCEPT !.mainQueue = Tail(@)])
            erased == Len(r.accounts) # Len(accounts)
            cleared == localPasscode /\ ~r.localPasscode
            switched == r.active # active
        IN  /\ r.fatal = None
            /\ r.ret = cleared
            /\ r.calls = (IF switched THEN 1 ELSE 0)
                         + (IF erased /\ ~cleared THEN 1 ELSE 0)
            /\ (~switched /\ ~(erased /\ ~cleared)) =>
                   /\ r.mainQueue = Tail(mainQueue)
                   /\ r.writeAccountsScheduled = writeAccountsScheduled
            /\ (erased /\ ~cleared) =>
                   /\ r.writeAccountsScheduled
                   /\ Count(r.mainQueue, "write") >= 1

\* The queued call has erased an account and cleared the passcode: no write
\* is scheduled.
C22_Witness ==
    /\ last.op = "removeRedundantAccounts"
    /\ last.removed >= 1
    /\ last.ret
    /\ ~last.switched
    /\ ~writeAccountsScheduled
    /\ mainQueue = <<>>

\* C26 as claimed: when a queued removeRedundantAccounts() or a queued write
\* runs, the registry is not empty and an account is active, and the run does
\* not fail Expects(started()).
C26_AsClaimed ==
    [][last'.op \in {"removeRedundantAccounts", "writeAccounts"} =>
           /\ accounts # <<>>
           /\ active \in AccountIds(accounts)
           /\ fatal' = None]_vars

\* The step runs the removeRedundantAccounts() that the loss of a non-active
\* account's session has just queued, and no other is queued.
NonActiveLossCleanup ==
    /\ last.op = "sessionLost"
    /\ ~last.wasActive
    /\ Count(mainQueue, "remove") = 1
    /\ RemoveRedundantRan

\* C27 as claimed: the loss of a non-active account's session changes the
\* active account neither in the callback nor in the removeRedundantAccounts()
\* it queues, and that call does not erase the active account.
C27_AsClaimed ==
    [][/\ (last'.op = "sessionLost" /\ ~last'.wasActive /\ fatal' = None) =>
              active' = active
       /\ NonActiveLossCleanup =>
              (active' = active /\ active \in AccountIds(accounts'))]_vars

\* C27: the loss of a non-active account's session does not change the active
\* account in the callback; the removeRedundantAccounts() it queues keeps the
\* active account when that has a session or no account has one, and
\* otherwise activates the first account with a session and erases the
\* account that was active.
C27_NonActiveLoss ==
    [][/\ (last'.op = "sessionLost" /\ ~last'.wasActive /\ fatal' = None) =>
              (active' = active /\ accounts' # <<>>
               /\ AccountIds(accounts') = AccountIds(accounts))
       /\ NonActiveLossCleanup =>
              IF sessionExists(Here, active) \/ Live(accounts) = {}
              THEN active' = active /\ active \in AccountIds(accounts')
              ELSE /\ active' = FirstLive(accounts).id
                   /\ active \notin AccountIds(accounts')]_vars

\* A non-active account has lost its session while the active account has
\* none and a third account has one: the callback has kept the active account.
C27_Witness ==
    /\ last.op = "sessionLost"
    /\ ~last.wasActive
    /\ ~last.switched
    /\ Len(accounts) = 3
    /\ ~sessionExists(Here, active)
    /\ Live(accounts) # {}
    /\ Count(mainQueue, "remove") = 1

\* The index of the active account, NoIndex when none is active.
ActiveIndex(accs, id) ==
    IF id \in AccountIds(accs) THEN AccountOf(accs, id).index ELSE NoIndex

\* The step is a load: start() or resetWithForgottenPasscode() has filled the
\* empty registry.
Loaded ==
    /\ accounts = <<>>
    /\ accounts' # <<>>
    /\ last'.op \in {"start", "resetWithForgottenPasscode"}

\* C25: while an account is active, activeForStorage() is its index. And the
\* active index in storage is the index of the active account whenever no
\* write is pending, step by step: a load that leaves no write pending has
\* loaded the index of the account it activated; a write stores the index of
\* the active account; any other step that changes the index of the active
\* account leaves a write pending; and only the write itself ends a pending
\* write.
C25_ActiveForStorage ==
    /\ [](active # Null =>
             /\ active \in AccountIds(accounts)
             /\ activeForStorage(Here) = AccountOf(accounts, active).index)
    /\ [][fatal' = None =>
              /\ (Loaded /\ ~writeAccountsScheduled') =>
                     last'.loaded = ActiveIndex(accounts', active')
              /\ (last'.op = "writeAccounts" /\ active' # Null) =>
                     last'.written[2] = ActiveIndex(accounts', active')
              /\ (~Loaded /\ active' # Null
                    /\ ActiveIndex(accounts', active')
                           # ActiveIndex(accounts, active)) =>
                     /\ writeAccountsScheduled'
                     /\ Count(mainQueue', "write") = 1
              /\ (writeAccountsScheduled /\ ~writeAccountsScheduled') =>
                     last'.op = "writeAccounts"]_vars

\* A write has stored the index of the second account, which is the active
\* one, and no write is pending.
C25_Witness ==
    /\ last.op = "writeAccounts"
    /\ Len(accounts) >= 2
    /\ active = accounts[2].id
    /\ last.written[2] = accounts[2].index
    /\ activeForStorage(Here) = accounts[2].index
    /\ ~writeAccountsScheduled

\* The accounts whose session appears or disappears in the step.
Flipped ==
    {i \in 1 .. Len(accounts) :
        /\ Len(accounts') = Len(accounts)
        /\ accounts'[i].session # accounts[i].session}

\* C24: the active account, and no other, feeds the active-session stream. A
\* handler that makes another account X the active one sends X's session
\* value to the stream at once, once, and nothing of the account it replaces;
\* a change of the active account's session is sent to the stream, and
\* nothing is sent for an account that is not active.
C24_ActiveSessionForwarding ==
    /\ [](fatal = None =>
             activeLifetime = (IF active = Null THEN {} ELSE {active}))
    /\ [][fatal' = None =>
              /\ \A k \in 1 .. Len(last'.forwarded) :
                     last'.forwarded[k].account = active'
              /\ (active' # active /\ active' # Null) =>
                     last'.forwarded = <<SessionOf(Here', active')>>
              /\ \A i \in Flipped :
                     IF accounts[i].id = active'
                     THEN last'.forwarded
                              = <<[account |-> active',
                                   session |-> accounts'[i].session]>>
                     ELSE \A k \in 1 .. Len(last'.forwarded) :
                              last'.forwarded[k].account # accounts[i].id]_vars

\* The active account has lost its session and an account with a session has
\* taken its place: the stream was sent the session of the new one only.
C24_Witness ==
    /\ last.op = "sessionLost"
    /\ last.wasActive
    /\ last.switched
    /\ last.forwarded = <<[account |-> active, session |-> TRUE]>>
    /\ activeLifetime = {active}
    /\ Len(accounts) >= 2


\* Every session has ended and every deferred call has run.
Settled ==
    /\ Live(accounts) = {}
    /\ loggingOut = {}
    /\ mainQueue = <<>>
    /\ postponed = <<>>

\* The registry holds one account, the active one, without a session, and
\* no passcode is set.
LoggedOutOfAll ==
    /\ Len(accounts) = 1
    /\ active = accounts[1].id
    /\ ~accounts[1].session
    /\ ~localPasscode

\* A resetWithForgottenPasscode() on an empty registry starts the storage
\* from scratch and leaves a registry with an active account.
ResetFromScratch ==
    [][(last'.op = "resetWithForgottenPasscode" /\ accounts = <<>>) =>
           /\ fatal' = None
           /\ accounts' # <<>>
           /\ active' \in AccountIds(accounts')]_vars

\* C23 as stated: after resetWithForgottenPasscode() on a non-empty
\* registry, once every session has ended and every deferred call has run,
\* the registry holds exactly one account, the active one, it has no session
\* and no passcode is set; on an empty registry the call starts from scratch
\* and leaves a non-empty registry with an active account.
C23_AsClaimed ==
    /\ [][(/\ last'.op = "resetWithForgottenPasscode"
            /\ accounts # <<>>
            /\ fatal' = None
            /\ Settled') => LoggedOutOfAll']_vars
    /\ ResetFromScratch

\* C23, amended: after resetWithForgottenPasscode() on a registry in which
\* an account has a session, with nothing else asked of the Domain, every
\* session ends and every deferred call runs (fair main queue), and from then
\* on the registry holds exactly one account, the active one, it has no
\* session and no passcode is set; an account without a session is sent no
\* session end, so a registry without sessions stays as it is. On an empty
\* registry the call starts from scratch and leaves a non-empty registry with
\* an active account.
C23_ResetConverges ==
    /\ [][(last'.op = "resetWithForgottenPasscode" /\ accounts # <<>>) =>
              /\ fatal' = None
              /\ loggingOut' = {accounts[i].id : i \in Live(accounts)}
              /\ accounts' = accounts
              /\ active' = active
              /\ mainQueue' = mainQueue
              /\ localPasscode' = localPasscode]_vars
    /\ [](last.reset => fatal = None)
    /\ [](last.reset /\ Settled => LoggedOutOfAll)
    /\ (last.reset ~> (Settled /\ LoggedOutOfAll))
    /\ ResetFromScratch

\* The reset logged accounts out, the last deferred removeRedundantAccounts
\* erased the others and cleared the passcode, and nothing is left to do.
C23_Witness ==
    /\ last.reset
    /\ Settled
    /\ LoggedOutOfAll
    /\ last.op = "removeRedundantAccounts"
    /\ last.removed >= 1
    /\ last.ret

====
